---------------------------- MODULE Spec2Model ----------------------------
(***************************************************************************)
(* A model of src/scrape-schedule.js: the schedule scraper's time-token   *)
(* parser, evenings/weekends filter, location aggregator, novelty tracker  *)
(* (buildDateTable and the annotation loop), the driver main() with its    *)
(* browser session, and the coordinates-only mode.                         *)
(*                                                                         *)
(* JavaScript strings are TLA+ strings; indices are 0-based as in the      *)
(* source.  The en dash (U+2013) is written "~" (EnDash), the only         *)
(* character of the source's regular expressions outside ASCII.            *)
(***************************************************************************)
EXTENDS Integers, Sequences, FiniteSets, TLC

(***************************************************************************)
(* JavaScript string primitives used by the source.                        *)
(***************************************************************************)
EnDash == "~"

Min(a, b) == IF a < b THEN a ELSE b
Max(a, b) == IF a > b THEN a ELSE b

\* s.charAt(i), 0 <= i < s.length
CharAt(s, i) == SubSeq(s, i + 1, i + 1)

\* s.substring(a, b): both ends clamped to [0, length], swapped when a > b
Substring(s, a, b) ==
  LET ca == Max(0, Min(a, Len(s)))
      cb == Max(0, Min(b, Len(s)))
  IN SubSeq(s, Min(ca, cb) + 1, Max(ca, cb))

\* s.slice(a, b): a negative index counts from the end, no swap
Slice(s, a, b) ==
  LET n  == Len(s)
      ca == IF a < 0 THEN Max(0, n + a) ELSE Min(a, n)
      cb == IF b < 0 THEN Max(0, n + b) ELSE Min(b, n)
  IN IF ca >= cb THEN "" ELSE SubSeq(s, ca + 1, cb)

\* s.startsWith(p) at position i
MatchesAt(s, p, i) ==
  /\ i >= 0
  /\ i + Len(p) <= Len(s)
  /\ SubSeq(s, i + 1, i + Len(p)) = p

StartsWith(s, p) == MatchesAt(s, p, 0)

RECURSIVE IndexOfFrom(_, _, _)
IndexOfFrom(s, p, i) ==
  IF i + Len(p) > Len(s) THEN -1
  ELSE IF MatchesAt(s, p, i) THEN i
  ELSE IndexOfFrom(s, p, i + 1)

\* s.indexOf(p): -1 when absent
IndexOf(s, p) == IndexOfFrom(s, p, 0)

\* s.includes(p)
Includes(s, p) == IndexOf(s, p) >= 0

IsSpace(c) == c \in {" ", "\n", "\t"}
IsDigit(c) == c \in {"0", "1", "2", "3", "4", "5", "6", "7", "8", "9"}

DigitVal(c) ==
  CASE c = "0" -> 0 [] c = "1" -> 1 [] c = "2" -> 2 [] c = "3" -> 3
    [] c = "4" -> 4 [] c = "5" -> 5 [] c = "6" -> 6 [] c = "7" -> 7
    [] c = "8" -> 8 [] c = "9" -> 9

RECURSIVE TrimStart(_)
TrimStart(s) ==
  IF Len(s) > 0 /\ IsSpace(CharAt(s, 0)) THEN TrimStart(Slice(s, 1, Len(s)))
  ELSE s

RECURSIVE TrimEnd(_)
TrimEnd(s) ==
  IF Len(s) > 0 /\ IsSpace(CharAt(s, Len(s) - 1))
  THEN TrimEnd(Substring(s, 0, Len(s) - 1))
  ELSE s

\* s.trim()
Trim(s) == TrimEnd(TrimStart(s))

LowerOf(c) ==
  CASE c = "A" -> "a" [] c = "B" -> "b" [] c = "C" -> "c" [] c = "D" -> "d"
    [] c = "E" -> "e" [] c = "F" -> "f" [] c = "G" -> "g" [] c = "H" -> "h"
    [] c = "I" -> "i" [] c = "J" -> "j" [] c = "K" -> "k" [] c = "L" -> "l"
    [] c = "M" -> "m" [] c = "N" -> "n" [] c = "O" -> "o" [] c = "P" -> "p"
    [] c = "Q" -> "q" [] c = "R" -> "r" [] c = "S" -> "s" [] c = "T" -> "t"
    [] c = "U" -> "u" [] c = "V" -> "v" [] c = "W" -> "w" [] c = "X" -> "x"
    [] c = "Y" -> "y" [] c = "Z" -> "z" [] OTHER -> c

RECURSIVE ToLowerCase(_)
\* s.toLowerCase()
ToLowerCase(s) ==
  IF Len(s) = 0 THEN ""
  ELSE LowerOf(CharAt(s, 0)) \o ToLowerCase(Slice(s, 1, Len(s)))

RECURSIVE ReplaceAll(_, _, _)
\* s.replace(/p/g, r) for a literal pattern p
ReplaceAll(s, p, r) ==
  IF Len(s) = 0 THEN ""
  ELSE IF MatchesAt(s, p, 0)
       THEN r \o ReplaceAll(Slice(s, Len(p), Len(s)), p, r)
       ELSE CharAt(s, 0) \o ReplaceAll(Slice(s, 1, Len(s)), p, r)

RECURSIVE DigitsLen(_, _)
\* the length of the run of digits of s that starts at i
DigitsLen(s, i) ==
  IF i < Len(s) /\ IsDigit(CharAt(s, i)) THEN 1 + DigitsLen(s, i + 1) ELSE 0

RECURSIVE DigitsValue(_, _)
\* the value of a string of digits d, continuing from acc
DigitsValue(d, acc) ==
  IF Len(d) = 0 THEN acc
  ELSE DigitsValue(Slice(d, 1, Len(d)), acc * 10 + DigitVal(CharAt(d, 0)))

\* parseInt(s): leading whitespace is skipped, then an optional sign and a
\* run of digits; NaN when there is no digit there.
ParseInt(s) ==
  LET t    == TrimStart(s)
      neg  == Len(t) > 0 /\ CharAt(t, 0) = "-"
      sgn  == Len(t) > 0 /\ CharAt(t, 0) \in {"-", "+"}
      from == IF sgn THEN 1 ELSE 0
      n    == DigitsLen(t, from)
      v    == DigitsValue(Substring(t, from, from + n), 0)
  IN IF n = 0 THEN [nan |-> TRUE, val |-> 0]
     ELSE [nan |-> FALSE, val |-> IF neg THEN 0 - v ELSE v]


RECURSIVE CollapseSpaces(_)
\* s.replace(/\s+/g, ' ')
CollapseSpaces(s) ==
  IF Len(s) = 0 THEN ""
  ELSE IF IsSpace(CharAt(s, 0))
       THEN " " \o CollapseSpaces(TrimStart(s))
       ELSE CharAt(s, 0) \o CollapseSpaces(Slice(s, 1, Len(s)))

(***************************************************************************)
(* Program constants.                                                      *)
(***************************************************************************)
\* One week in milliseconds
NEW_TIMESLOT == 604800000

defaultDays ==
  <<"Monday", "Tuesday", "Wednesday", "Thursday", "Friday", "Saturday",
    "Sunday">>

\* The alternatives of CAPTION_REGEX, matched case-insensitively
CaptionWords ==
  <<"starting", "until", "january", "february", "march", "april", "may",
    "june", "july", "august", "september", "october", "november",
    "december">>

\* what an absent array element or object property reads as, and what
\* RegExp.test and string concatenation turn it into
Undefined == "undefined"

\* the coordinates of an activity or location that has none
NoCoordinates == [defined |-> FALSE, lat |-> Undefined, lon |-> Undefined]

(***************************************************************************)
(* Time Token Parser: the chain applied to a cell's text.                  *)
(***************************************************************************)
RECURSIVE SpaceDashes(_)
\* .replace(/([^ ])-([^ ])/g, '$1 - $2'): matches do not overlap
SpaceDashes(s) ==
  IF Len(s) = 0 THEN ""
  ELSE IF /\ Len(s) >= 3
          /\ CharAt(s, 0) # " "
          /\ CharAt(s, 1) = "-"
          /\ CharAt(s, 2) # " "
       THEN CharAt(s, 0) \o " - " \o CharAt(s, 2)
              \o SpaceDashes(Slice(s, 3, Len(s)))
       ELSE CharAt(s, 0) \o SpaceDashes(Slice(s, 1, Len(s)))

RECURSIVE NewlinesLen(_, _)
NewlinesLen(s, i) ==
  IF i < Len(s) /\ CharAt(s, i) = "\n" THEN 1 + NewlinesLen(s, i + 1) ELSE 0

RECURSIVE SplitFrom(_, _, _)
\* the pieces of s from position i on, cur being the piece under way; the
\* capturing group puts each separator into the result too
SplitFrom(s, i, cur) ==
  IF i >= Len(s) THEN <<cur>>
  ELSE IF CharAt(s, i) = ","
       THEN <<cur, ",">> \o SplitFrom(s, i + 1, "")
       ELSE IF CharAt(s, i) = "\n"
            THEN LET n == NewlinesLen(s, i)
                 IN <<cur, Substring(s, i, i + n)>> \o SplitFrom(s, i + n, "")
            ELSE SplitFrom(s, i + 1, cur \o CharAt(s, i))

\* .split(/(,|\n+|,)/)
SplitCell(s) == SplitFrom(s, 0, "")

\* eveningsAndWeekends(day)(time); an undefined day tests as "undefined"
eveningsAndWeekends(day, time) ==
  IF Includes(ToLowerCase(day), "sat") \/ Includes(ToLowerCase(day), "sun")
  THEN TRUE
  ELSE LET afternoon == Includes(time, "pm")
           startTime == ParseInt(time)
       IN IF ~afternoon THEN FALSE
          ELSE /\ ~startTime.nan
               /\ startTime.val # 12
               /\ startTime.val >= 5
               /\ startTime.val < 10

\* the schedule of one cell: lower-cased, noon and dashes normalised, split,
\* trimmed, tokens that do not start with an integer dropped, then the
\* evenings-and-weekends filter when flags.e is set
ParseCell(text, day, e) ==
  LET norm   == SpaceDashes(ReplaceAll(ReplaceAll(ToLowerCase(text),
                   "noon", "12 pm"), EnDash, "-"))
      pieces == SplitCell(norm)
      times  == [i \in 1..Len(pieces) |-> Trim(pieces[i])]
      isInt(t) == ~ParseInt(t).nan
      kept(t)  == IF e THEN eveningsAndWeekends(day, t) ELSE TRUE
  IN SelectSeq(SelectSeq(times, isInt), kept)

(***************************************************************************)
(* moment(text, ['h:mm a', 'h a']): moment's forgiving (non-strict) parse  *)
(* of the text given by getTime.  Each token of a format consumes the      *)
(* first place of the remaining text that fits it, skipping what precedes; *)
(* of the formats that give a valid time the one with the lowest score     *)
(* (characters left over + 10 per unused token) is taken.                  *)
(***************************************************************************)
RECURSIVE FirstWhere(_, _, _)
\* the first index >= i of s holding a character of the set cs, or -1
FirstWhere(s, cs, i) ==
  IF i >= Len(s) THEN -1
  ELSE IF CharAt(s, i) \in cs THEN i
  ELSE FirstWhere(s, cs, i + 1)

Digits == {"0", "1", "2", "3", "4", "5", "6", "7", "8", "9"}

MomentStart(text) ==
  [rest |-> text, parsed |-> 0, h |-> -1, m |-> -1, mer |-> "",
   unused |-> 0]

\* tokens h and mm, both /\d\d?/ when not strict
MomentNumber(st, field) ==
  LET i == FirstWhere(st.rest, Digits, 0)
      n == Min(2, DigitsLen(st.rest, i))
      v == DigitsValue(Substring(st.rest, i, i + n), 0)
  IN IF i < 0 THEN [st EXCEPT !.unused = @ + 1]
     ELSE [st EXCEPT ![field] = v,
                     !.rest = Slice(st.rest, i + n, Len(st.rest)),
                     !.parsed = @ + n]

\* a literal of the format (":" or " ")
MomentLiteral(st, c) ==
  LET i == IndexOf(st.rest, c)
  IN IF i < 0 THEN st
     ELSE [st EXCEPT !.rest = Slice(st.rest, i + 1, Len(st.rest)),
                     !.parsed = @ + 1]

\* token a: /[ap]\.?m?\.?/i
MomentMeridiem(st) ==
  LET r  == st.rest
      i  == FirstWhere(r, {"a", "p", "A", "P"}, 0)
      d1 == IF i + 1 < Len(r) /\ CharAt(r, i + 1) = "." THEN 1 ELSE 0
      mm == IF i + 1 + d1 < Len(r) /\ CharAt(r, i + 1 + d1) \in {"m", "M"}
            THEN 1 ELSE 0
      d2 == IF i + 1 + d1 + mm < Len(r) /\ CharAt(r, i + 1 + d1 + mm) = "."
            THEN 1 ELSE 0
      n  == 1 + d1 + mm + d2
  IN IF i < 0 THEN [st EXCEPT !.unused = @ + 1]
     ELSE [st EXCEPT !.mer = LowerOf(CharAt(r, i)),
                     !.rest = Slice(r, i + n, Len(r)),
                     !.parsed = @ + n]

\* format 'h:mm a'
MomentHMMA(text) ==
  MomentMeridiem(MomentLiteral(MomentNumber(MomentLiteral(
    MomentNumber(MomentStart(text), "h"), ":"), "m"), " "))

\* format 'h a'
MomentHA(text) ==
  MomentMeridiem(MomentLiteral(MomentNumber(MomentStart(text), "h"), " "))

\* the 24-hour hour: meridiemFixWrap
MomentHour(st) ==
  LET h == IF st.h < 0 THEN 0 ELSE st.h
  IN IF st.mer = "" THEN h
     ELSE IF st.mer = "p" /\ h < 12 THEN h + 12
     ELSE IF st.mer = "a" /\ h = 12 THEN 0
     ELSE h

MomentMinute(st) == IF st.m < 0 THEN 0 ELSE st.m

\* isValid: something was parsed, and hour and minute do not overflow
MomentValid(st) ==
  /\ st.parsed > 0
  /\ (st.h >= 0 \/ st.m >= 0 \/ st.mer # "")
  /\ MomentMinute(st) <= 59
  /\ \/ MomentHour(st) < 24
     \/ MomentHour(st) = 24 /\ MomentMinute(st) = 0

MomentScore(text, st) == (Len(text) - st.parsed) + 10 * st.unused

\* the parsed time of day in minutes (the date is the day of the run for
\* every text, so the difference of two values is that of their minutes);
\* nan for an invalid moment, whose valueOf() is NaN
MomentValue(st) ==
  [nan |-> FALSE, val |-> MomentHour(st) * 60 + MomentMinute(st)]

\* the choice between the two parses f1 ('h:mm a') and f2 ('h a')
MomentBest(text, f1, f2) ==
  LET v1 == MomentValid(f1)
      v2 == MomentValid(f2)
  IN IF ~v1 /\ ~v2 THEN [nan |-> TRUE, val |-> 0]
     ELSE IF v1 /\ (~v2 \/ MomentScore(text, f1) <= MomentScore(text, f2))
          THEN MomentValue(f1)
          ELSE MomentValue(f2)

Moment(text) == MomentBest(text, MomentHMMA(text), MomentHA(text))

(***************************************************************************)
(* Day-Column Resolver and Activity Row Extractor.  A table is             *)
(*   [caption, thead, firstRow, rows]: the caption's text, the texts of    *)
(* the header cells and of the first body row's cells, and the rows that   *)
(* contain "Pickleball", each [head, cells]: the text of the row's th      *)
(* ("" when it has none) and the texts of its td cells.                    *)
(***************************************************************************)
RECURSIVE JoinText(_)
\* the text() of a selection: the texts of its elements, concatenated
JoinText(q) == IF Len(q) = 0 THEN "" ELSE Head(q) \o JoinText(Tail(q))

\* getDays()
GetDays(table) ==
  LET nonEmpty(x) == x # ""
      labels(row) == SelectSeq([i \in 1..Len(row) |-> Trim(row[i])], nonEmpty)
  IN IF Includes(JoinText(table.thead), "Monday") THEN labels(table.thead)
     ELSE IF Includes(JoinText(table.firstRow), "Monday")
          THEN labels(table.firstRow)
          ELSE defaultDays

RECURSIVE SearchWords(_, _)
\* the least index at which one of the words of ws occurs in s, or -1
SearchWords(s, ws) ==
  IF Len(ws) = 0 THEN -1
  ELSE LET i == IndexOf(s, Head(ws))
           j == SearchWords(s, Tail(ws))
       IN IF i < 0 THEN j ELSE IF j < 0 THEN i ELSE Min(i, j)

\* s.search(CAPTION_REGEX)
SearchCaption(s) == SearchWords(ToLowerCase(s), CaptionWords)

\* the caption kept from a table's caption text; "" stands for null
CaptionOf(text) ==
  IF SearchCaption(text) >= 0
  THEN Slice(text, SearchCaption(text), Len(text))
  ELSE ""

\* days[actualIndex] for a 0-based index
DayAt(days, actualIndex) ==
  IF actualIndex >= 0 /\ actualIndex < Len(days) THEN days[actualIndex + 1]
  ELSE Undefined

\* the day and schedule of each td of a row
RowCells(table, row, e) ==
  LET days == GetDays(table)
      activityIsHead == CollapseSpaces(row.head) # ""
  IN [i \in 1..Len(row.cells) |->
        LET day == DayAt(days, (i - 1) - (IF activityIsHead THEN 0 ELSE 1))
        IN [day |-> day, schedule |-> ParseCell(row.cells[i], day, e)]]

\* the reduce over the cells: a day's entry is the schedule of the last
\* cell of that day with a non-empty schedule
CellSchedules(cells) ==
  LET filled == {i \in 1..Len(cells) : Len(cells[i].schedule) > 0}
      last(d) == CHOOSE i \in filled :
                   /\ cells[i].day = d
                   /\ \A j \in filled : cells[j].day = d => j <= i
  IN [d \in {cells[i].day : i \in filled} |-> cells[last(d)].schedule]

\* the schedules object of a row
RowSchedules(table, row, e) == CellSchedules(RowCells(table, row, e))

\* the activity object built from a matching row
ExtractRow(page, table, row, e) ==
  LET headName == CollapseSpaces(row.head)
      caption == CaptionOf(table.caption)
      first == IF Len(row.cells) > 0 THEN row.cells[1] ELSE ""
  IN [location |-> IF page.h1 # "" /\ caption # ""
                   THEN page.h1 \o " " \o caption
                   ELSE page.h1 \o caption,
      home |-> page.home,
      address |-> page.address,
      coordinates |-> NoCoordinates,
      activity |-> IF headName # "" THEN headName ELSE CollapseSpaces(first),
      schedules |-> RowSchedules(table, row, e)]

\* the rows of a table, extracted in order
TableActivities(page, table, e) ==
  [i \in 1..Len(table.rows) |-> ExtractRow(page, table, table.rows[i], e)]

RECURSIVE PageRows(_, _, _)
PageRows(page, tables, e) ==
  IF Len(tables) = 0 THEN <<>>
  ELSE TableActivities(page, Head(tables), e) \o PageRows(page, Tail(tables), e)

\* the activities of a document: its rows with a non-empty schedules object
PageActivities(page, e) ==
  LET hasSchedule(x) == DOMAIN x.schedules # {}
  IN SelectSeq(PageRows(page, page.tables, e), hasSchedule)

(***************************************************************************)
(* Location Aggregator: the reduce of main() over the activities.          *)
(* resultsByLocation is a sequence of [name, home, address, coordinates,   *)
(* days], in the insertion order of the object's keys; days maps the days  *)
(* that have ranges to their lists.                                        *)
(***************************************************************************)
RECURSIVE FirstDash(_, _)
\* the first index >= i of a hyphen or en dash in x, or -1
FirstDash(x, i) ==
  IF i >= Len(x) THEN -1
  ELSE IF CharAt(x, i) \in {"-", EnDash} THEN i
  ELSE FirstDash(x, i + 1)

\* whether x.split(/[–-]/)[1] is defined
HasDash(x) == FirstDash(x, 0) >= 0

\* x.split(/[–-]/)[1], for an x that has a dash
AfterDash(x) ==
  LET i == FirstDash(x, 0)
      j == FirstDash(x, i + 1)
  IN Substring(x, i + 1, IF j < 0 THEN Len(x) ELSE j)

\* getTime(x): the moment parsed from the text after the first dash, cut at
\* an index computed on the whole of x
GetTime(x) ==
  Moment(Trim(Substring(AfterDash(x), 0,
                        Max(IndexOf(x, "am"), IndexOf(x, "pm") + 2))))

\* the comparator's sign; a NaN difference counts as 0
TimeDifference(ta, tb) == IF ta.nan \/ tb.nan THEN 0 ELSE ta.val - tb.val

\* (a, b) => getTime(a) - getTime(b)
CompareRanges(a, b) == TimeDifference(GetTime(a), GetTime(b))

RECURSIVE InsertSorted(_, _)
\* x put after the last element of the sorted q that does not follow it
InsertSorted(q, x) ==
  IF Len(q) = 0 THEN <<x>>
  ELSE IF CompareRanges(q[Len(q)], x) <= 0 THEN Append(q, x)
  ELSE Append(InsertSorted(SubSeq(q, 1, Len(q) - 1), x), q[Len(q)])

RECURSIVE StableSort(_)
\* Array.prototype.sort with the comparator: stable
StableSort(q) ==
  IF Len(q) = 0 THEN <<>>
  ELSE InsertSorted(StableSort(SubSeq(q, 1, Len(q) - 1)), q[Len(q)])

\* the sort raises a TypeError when the comparator is called (two or more
\* ranges) on a range with no dash: split(...)[1] is undefined
SortRaises(q) == Len(q) >= 2 /\ \E i \in 1..Len(q) : ~HasDash(q[i])

\* `${time.replace(/ ?: ?/g, ':')} (${activity.trim()})`
RECURSIVE FixColons(_)
FixColons(s) ==
  IF Len(s) = 0 THEN ""
  ELSE IF MatchesAt(s, " : ", 0) THEN ":" \o FixColons(Slice(s, 3, Len(s)))
  ELSE IF MatchesAt(s, " :", 0) THEN ":" \o FixColons(Slice(s, 2, Len(s)))
  ELSE IF MatchesAt(s, ": ", 0) THEN ":" \o FixColons(Slice(s, 2, Len(s)))
  ELSE CharAt(s, 0) \o FixColons(Slice(s, 1, Len(s)))

LabeledRange(time, activity) ==
  FixColons(time) \o " (" \o Trim(activity) \o ")"

\* the index of the entry named name in acc, 0 when there is none
EntryIndex(acc, name) ==
  IF \E i \in 1..Len(acc) : acc[i].name = name
  THEN CHOOSE i \in 1..Len(acc) : acc[i].name = name
  ELSE 0

\* a day's list before the sort: what is there already, then the new ranges
DayConcat(acc, a, day) ==
  LET k   == EntryIndex(acc, a.location)
      old == IF k > 0 /\ day \in DOMAIN acc[k].days THEN acc[k].days[day]
             ELSE <<>>
      new == IF day \in DOMAIN a.schedules
             THEN [i \in 1..Len(a.schedules[day]) |->
                     LabeledRange(a.schedules[day][i], a.activity)]
             ELSE <<>>
  IN old \o new

DaySet == {defaultDays[i] : i \in 1..Len(defaultDays)}

\* whether folding activity a into acc raises
FoldRaises(acc, a) == \E day \in DaySet : SortRaises(DayConcat(acc, a, day))

\* acc[a.location] = location: a new key goes last
PutLocation(acc, k, location) ==
  IF k > 0 THEN [acc EXCEPT ![k] = location] ELSE Append(acc, location)

\* the day lists of a location after activity a: each sorted
SortedDays(lists) ==
  [day \in {d \in DaySet : Len(lists[d]) > 0} |-> StableSort(lists[day])]

\* one step of the reduce, for an activity that does not raise
FoldActivity(acc, a) ==
  PutLocation(acc, EntryIndex(acc, a.location),
    [name |-> a.location, home |-> a.home, address |-> a.address,
     coordinates |-> a.coordinates,
     days |-> SortedDays([day \in DaySet |-> DayConcat(acc, a, day)])])

RECURSIVE Aggregate(_, _)
\* results.reduce(..., {}): [raised, value]
Aggregate(acc, results) ==
  IF Len(results) = 0 THEN [raised |-> FALSE, value |-> acc]
  ELSE IF FoldRaises(acc, Head(results))
       THEN [raised |-> TRUE, value |-> acc]
       ELSE Aggregate(FoldActivity(acc, Head(results)), Tail(results))

(***************************************************************************)
(* Novelty Tracker: buildDateTable and the annotation loop of main().      *)
(* A table maps keys to timestamps.  Date.now() is read once per range in  *)
(* buildDateTable and once per key in the annotation loop; the clock may   *)
(* pass a millisecond boundary once in between: the calls numbered above   *)
(* tickAt read now + 1, the others now.                                    *)
(***************************************************************************)
NowAt(now, tickAt, call) == IF call > tickAt THEN now + 1 ELSE now

\* the name part of a location's keys: locationName.slice(0, captionIndex)
\* .trim(), where captionIndex is -1 for a name with no caption word
KeyName(locationName) ==
  Trim(Slice(locationName, 0, SearchCaption(locationName)))

\* time.split(' (')[0]
TimeWithoutActivity(time) ==
  IF IndexOf(time, " (") < 0 THEN time
  ELSE Substring(time, 0, IndexOf(time, " ("))

KeyOf(locationName, day, time) ==
  KeyName(locationName) \o "|" \o day \o "|" \o TimeWithoutActivity(time)

RECURSIVE DayKeys(_, _)
\* the keys of one location, in the order of the loops over the days and
\* the times
DayKeys(location, d) ==
  IF d > Len(defaultDays) THEN <<>>
  ELSE (IF defaultDays[d] \in DOMAIN location.days
        THEN [i \in 1..Len(location.days[defaultDays[d]]) |->
                KeyOf(location.name, defaultDays[d],
                      location.days[defaultDays[d]][i])]
        ELSE <<>>) \o DayKeys(location, d + 1)

RECURSIVE KeyOccurrences(_)
\* every key buildDateTable computes, in order, repetitions included
KeyOccurrences(current) ==
  IF Len(current) = 0 THEN <<>>
  ELSE DayKeys(Head(current), 1) \o KeyOccurrences(Tail(current))

\* previous[key] || Date.now(): a falsy stored value reads as absent
OlderDate(previous, key, now) ==
  IF key \in DOMAIN previous /\ previous[key] # 0 THEN previous[key] ELSE now

\* a table that keeps tombstones: the keys of previous that current does
\* not have stay, with their stamps
buildDateTableKeeping(previous, current, now, tickAt) ==
  LET occ == KeyOccurrences(current)
      keys == {occ[i] : i \in 1..Len(occ)}
  IN [k \in keys \cup DOMAIN previous |->
        IF k \in keys THEN OlderDate(previous, k, now) ELSE previous[k]]

\* buildDateTable(previous, current): each key holds what its last
\* occurrence assigned
buildDateTable(previous, current, now, tickAt) ==
  LET occ == KeyOccurrences(current)
      last(k) == CHOOSE i \in 1..Len(occ) :
                   occ[i] = k /\ \A j \in 1..Len(occ) : occ[j] = k => j <= i
  IN [k \in {occ[i] : i \in 1..Len(occ)} |->
        OlderDate(previous, k, NowAt(now, tickAt, last(k)))]

RECURSIVE Distinct(_, _)
\* the elements of q not in seen, each once, in the order of their first
\* occurrence: the order of the keys of the object buildDateTable returns
Distinct(q, seen) ==
  IF Len(q) = 0 THEN <<>>
  ELSE IF Head(q) \in seen THEN Distinct(Tail(q), seen)
  ELSE <<Head(q)>> \o Distinct(Tail(q), seen \cup {Head(q)})

KeyOrder(current) == Distinct(KeyOccurrences(current), {})

\* key.split('|'): the piece numbered n (from 0); Undefined when there are
\* fewer pieces
RECURSIVE KeyPiece(_, _)
KeyPiece(key, n) ==
  LET i == IndexOf(key, "|")
  IN IF n = 0 THEN (IF i < 0 THEN key ELSE Substring(key, 0, i))
     ELSE IF i < 0 THEN Undefined
     ELSE KeyPiece(Slice(key, i + 1, Len(key)), n - 1)

\* the marks one new key adds: in every location whose name includes the
\* key's name and that has the key's day, every range that starts with the
\* key's time gets a "*" appended
MarkKey(byLocation, key) ==
  LET shortLocation == KeyPiece(key, 0)
      day == KeyPiece(key, 1)
      time == KeyPiece(key, 2)
  IN [i \in 1..Len(byLocation) |->
        IF Includes(byLocation[i].name, shortLocation)
           /\ day \in DOMAIN byLocation[i].days
        THEN [byLocation[i] EXCEPT !.days[day] =
                [j \in 1..Len(@) |->
                   IF StartsWith(@[j], time) THEN @[j] \o "*" ELSE @[j]]]
        ELSE byLocation[i]]

\* Date.now() - newTimes[key] < NEW_TIMESLOT
IsNew(newTimes, key, now) == now - newTimes[key] < NEW_TIMESLOT

RECURSIVE AnnotateFrom(_, _, _, _, _, _)
\* the loop over the keys of newTimes from the j-th on; the Date.now() of
\* the j-th key is call number base + j
AnnotateFrom(byLocation, newTimes, keys, j, now, tickAt) ==
  IF j > Len(keys) THEN byLocation
  ELSE AnnotateFrom(
         IF IsNew(newTimes, keys[j],
                  NowAt(now, tickAt, Len(KeyOccurrences(byLocation)) + j))
         THEN MarkKey(byLocation, keys[j]) ELSE byLocation,
         newTimes, keys, j + 1, now, tickAt)

Annotate(byLocation, newTimes, now, tickAt) ==
  AnnotateFrom(byLocation, newTimes, KeyOrder(byLocation), 1, now, tickAt)

(***************************************************************************)
(* Geocoding and its cache.  Coordinates are [defined, lat, lon]: whether   *)
(* the object is there, and lat and lon as their JSON text, Undefined when *)
(* the property is missing ("0" is the number 0).                          *)
(***************************************************************************)
RECURSIVE SplitSpaces(_, _, _)
\* address.split(/\s+/)
SplitSpaces(s, i, cur) ==
  IF i >= Len(s) THEN <<cur>>
  ELSE IF IsSpace(CharAt(s, i))
       THEN IF i > 0 /\ IsSpace(CharAt(s, i - 1))
            THEN SplitSpaces(s, i + 1, cur)
            ELSE <<cur>> \o SplitSpaces(s, i + 1, "")
       ELSE SplitSpaces(s, i + 1, cur \o CharAt(s, i))

RECURSIVE JoinSpaces(_)
JoinSpaces(q) ==
  IF Len(q) = 0 THEN ""
  ELSE IF Len(q) = 1 THEN q[1]
  ELSE q[1] \o " " \o JoinSpaces(Tail(q))

\* address.split(/\s+/).slice(0, -2).join(' ')
addressWithoutPostalCode(address) ==
  LET words == SplitSpaces(address, 0, "")
  IN JoinSpaces(SubSeq(words, 1, Max(0, Len(words) - 2)))

Truthy(v) == v \notin {Undefined, "0"}

\* coordinates?.lat
HasLat(coordinates) == coordinates.defined /\ Truthy(coordinates.lat)

\* needsCoordinates of populateCoordinatesOnly
NeedsCoordinates(coordinates) ==
  \/ ~coordinates.defined
  \/ ~Truthy(coordinates.lat)
  \/ ~Truthy(coordinates.lon)
  \/ (coordinates.lat = "0" /\ coordinates.lon = "0")

\* what the geocoding service answers for an address it knows
GeoAnswer == [defined |-> TRUE, lat |-> "45.4", lon |-> "-75.7"]

RECURSIVE SeedCache(_, _)
\* the forEach of cacheOldCoordinates over the persisted schedule
SeedCache(cache, schedule) ==
  IF Len(schedule) = 0 THEN cache
  ELSE LET address == addressWithoutPostalCode(Head(schedule).address)
           next == IF HasLat(Head(schedule).coordinates)
                   THEN [a \in DOMAIN cache \cup {address} |->
                           IF a = address THEN Head(schedule).coordinates
                           ELSE cache[a]]
                   ELSE cache
       IN SeedCache(next, Tail(schedule))

\* A file is [state, value]: "missing" (it cannot be read), "corrupt" (it
\* is not JSON) or "ok" with the value it holds.
\* JSON.parse(data || '{}') with its catch, for a file that can be read
ParsedFile(file, empty) == IF file.state = "corrupt" THEN empty ELSE file.value

MissingFile(empty) == [state |-> "missing", value |-> empty]
CorruptFile(empty) == [state |-> "corrupt", value |-> empty]
FileOf(value) == [state |-> "ok", value |-> value]

EmptyTable == [k \in {} |-> 0]


(***************************************************************************)
(* State.                                                                  *)
(***************************************************************************)
VARIABLES
  pc,               \* where the process is
  flags,            \* the command line's flags
  clock,            \* Date.now()
  runs,             \* the processes started so far
  dateFile,         \* ./cache/date-scraped.json, a file holding a table
  scheduleFile,     \* ./cache/schedule.json, a file holding a schedule
  browser,          \* the shared browser: "null" or "open"
  pages,            \* the pages open in the browser
  launches,         \* history: the browsers puppeteer.launch gave this process
  closeCalls,       \* history: the calls of closeBrowser in this process
  index,            \* the loop index of the loop under way
  fetched,          \* the centres fetchPageContent was called for
  results,          \* the activities extracted so far
  coordinatesCache, \* normalised address -> coordinates
  geocodeLog,       \* the addresses the geocoding service was asked for
  byLocation,       \* resultsByLocation
  previous,         \* the table getPreviousTimes gave
  newTimes,         \* the table buildDateTable returned
  seen,             \* history: every key ever stamped, with its first stamp
  output,           \* [done, value]: the schedule the run printed
  error,            \* what failed in this process, "none" otherwise
  exitCode,         \* the exit status: "none" while the process runs, "0", "1"
  schedule,         \* coordinates-only mode: the schedule being filled in
  loaded,           \* history: the schedule as coordinates-only mode read it
  updated,          \* coordinates-only mode: the flag of the same name
  content           \* [state, document]: what page.content() gave

vars ==
  <<pc, flags, clock, runs, dateFile, scheduleFile, browser, pages, launches,
    closeCalls, index, fetched, results, coordinatesCache, geocodeLog,
    byLocation, previous, newTimes, seen, output, error, exitCode, schedule,
    loaded, updated, content>>

(***************************************************************************)
(* The documents the centres serve.  A document is [h1, home, address,     *)
(* tables]; its tables carry the seven day names in their header row and   *)
(* a row-header cell in each activity row.                                 *)
(***************************************************************************)
\* the centres scraped; the source lists 14
NumCentres == 2

\* the processes started one after the other over the same cache files
MaxRuns == 2

\* the cells of a row that has text under one day
WeekCells(day, text) ==
  [i \in 1..Len(defaultDays) |-> IF defaultDays[i] = day THEN text ELSE ""]

WeekTable(caption, day, text) ==
  [caption |-> caption, thead |-> <<"">> \o defaultDays, firstRow |-> <<>>,
   rows |-> <<[head |-> "Pickleball", cells |-> WeekCells(day, text)]>>]

HubAddress == "1 Elm St Ottawa ON K1A 0B1"
DenAddress == "9 Oak Ave Ottawa ON K2B 3C4"

HubDocument(tables) ==
  [h1 |-> "Hub", home |-> 1, address |-> HubAddress, tables |-> tables]

DenDocument(tables) ==
  [h1 |-> "Den", home |-> 2, address |-> DenAddress, tables |-> tables]

\* what a centre may serve when it is fetched: one of these
CentreDocuments(c) ==
  IF c = 1
  THEN <<HubDocument(<<WeekTable("", "Monday", "1 - 2 pm")>>),
         HubDocument(<<WeekTable("", "Monday", "1 - 2 pm"),
                       WeekTable("Schedule until May", "Monday", "1 - 2 pm")>>),
         HubDocument(<<WeekTable("", "Monday", "noon, 1 - 2 pm")>>),
         HubDocument(<<WeekTable("", "Monday", "9 am - 1 pm, 10 - 11 am")>>)>>
  ELSE <<DenDocument(<<WeekTable("", "Tuesday", "6 - 7 pm")>>),
         DenDocument(<<>>)>>

\* what a centre may serve from one run to the next, one of these: the
\* first centre's Monday slot comes and goes
SeasonDocuments(c) ==
  IF c = 1
  THEN <<HubDocument(<<WeekTable("", "Monday", "1 - 2 pm")>>),
         HubDocument(<<>>)>>
  ELSE <<DenDocument(<<>>)>>

\* a novelty table an earlier run left on disk
StoredTable(stamp) ==
  [k \in {"Hu|Monday|1 - 2 pm", "De|Tuesday|6 - 7 pm"} |->
     IF k = "Hu|Monday|1 - 2 pm" THEN stamp ELSE 7]

StoredTables == {StoredTable(0), StoredTable(7)}

\* a location of a persisted schedule
StoredLocation(name, home, address, coordinates) ==
  [name |-> name, home |-> home, address |-> address,
   coordinates |-> coordinates,
   days |-> [d \in {"Monday"} |-> <<"1 - 2 pm (Pickleball)">>]]

\* the coordinates a persisted location may hold: none, a pair, a latitude
\* with no longitude, the pair 0,0
CoordinateCases ==
  {NoCoordinates,
   [defined |-> TRUE, lat |-> "44.1", lon |-> "-76.2"],
   [defined |-> TRUE, lat |-> "44.1", lon |-> Undefined],
   [defined |-> TRUE, lat |-> "0", lon |-> "0"]}

\* the schedule a scraping run may find on disk
StoredSchedule ==
  <<StoredLocation("Hub", 1, HubAddress,
                   [defined |-> TRUE, lat |-> "44.1", lon |-> "-76.2"])>>

\* the schedules a coordinates-only run may find on disk
CoordinateSchedules ==
  {<<StoredLocation("Hub", 1, HubAddress, h),
     StoredLocation("Den", 2, DenAddress, d)>> :
     h \in CoordinateCases, d \in CoordinateCases}

\* the clock when the first process starts, later than the stored stamps
Now0 == 1000

NoOutput == [done |-> FALSE, value |-> <<>>]
NoContent == [state |-> "none", document |-> DenDocument(<<>>)]
NoFlags ==
  [e |-> FALSE, coordinates |-> FALSE, coordinatesOnly |-> FALSE]

\* the state of a process that has just started with flags f
Fresh(f) ==
  /\ flags' = f
  /\ browser' = "null"
  /\ pages' = 0
  /\ launches' = 0
  /\ closeCalls' = 0
  /\ index' = 0
  /\ fetched' = {}
  /\ results' = <<>>
  /\ coordinatesCache' = EmptyTable
  /\ geocodeLog' = <<>>
  /\ byLocation' = <<>>
  /\ previous' = EmptyTable
  /\ newTimes' = EmptyTable
  /\ output' = NoOutput
  /\ error' = "none"
  /\ exitCode' = "none"
  /\ content' = NoContent
  /\ schedule' = <<>>
  /\ loaded' = <<>>
  /\ updated' = FALSE

\* no process has run yet
Idle ==
  /\ pc = "idle"
  /\ flags = NoFlags
  /\ runs = 0
  /\ browser = "null"
  /\ pages = 0
  /\ launches = 0
  /\ closeCalls = 0
  /\ index = 0
  /\ fetched = {}
  /\ results = <<>>
  /\ coordinatesCache = EmptyTable
  /\ geocodeLog = <<>>
  /\ byLocation = <<>>
  /\ previous = EmptyTable
  /\ newTimes = EmptyTable
  /\ output = NoOutput
  /\ error = "none"
  /\ exitCode = "none"
  /\ schedule = <<>>
  /\ loaded = <<>>
  /\ updated = FALSE
  /\ content = NoContent

\* a scraping run more than a week after the stored stamps: either cache
\* file may be missing, corrupt, or hold what an earlier run wrote
Init ==
  /\ Idle
  /\ clock = Now0 + NEW_TIMESLOT
  /\ dateFile \in {MissingFile(EmptyTable), CorruptFile(EmptyTable)}
                   \cup {FileOf(t) : t \in StoredTables}
  /\ scheduleFile \in {MissingFile(<<>>), CorruptFile(<<>>),
                       FileOf(StoredSchedule)}
  /\ seen = EmptyTable

\* runs that follow each other over files that can be read
InitNovelty ==
  /\ Idle
  /\ clock = Now0
  /\ dateFile \in {FileOf(EmptyTable)} \cup {FileOf(t) : t \in StoredTables}
  /\ scheduleFile = FileOf(<<>>)
  /\ seen = dateFile.value

\* a coordinates-only run
InitCoordinates ==
  /\ Idle
  /\ clock = Now0
  /\ dateFile = FileOf(EmptyTable)
  /\ scheduleFile \in {MissingFile(<<>>), CorruptFile(<<>>)}
                       \cup {FileOf(x) : x \in CoordinateSchedules}
  /\ seen = EmptyTable

(***************************************************************************)
(* main() in scraping mode, run without --outfile: the schedule is         *)
(* printed.                                                                *)
(***************************************************************************)
\* the first process is started: flags.e and flags.coordinates are the
\* command line's
Begin(f) ==
  /\ pc = "idle"
  /\ Fresh(f)
  /\ runs' = runs + 1
  /\ pc' = "cacheOld"
  /\ UNCHANGED <<clock, dateFile, scheduleFile, seen>>

Start ==
  \E e \in BOOLEAN, c \in BOOLEAN :
    Begin([e |-> e, coordinates |-> c, coordinatesOnly |-> FALSE])

\* the first process is started with no flag
StartPlain == Begin(NoFlags)

\* once a process has ended the next one is started with the same flags, a
\* millisecond or a week later
StartAgain ==
  /\ pc = "done" \/ pc = "exited"
  /\ runs < MaxRuns
  /\ Fresh(flags)
  /\ \E week \in BOOLEAN : clock' = clock + (IF week THEN NEW_TIMESLOT ELSE 1)
  /\ runs' = runs + 1
  /\ pc' = "cacheOld"
  /\ UNCHANGED <<dateFile, scheduleFile, seen>>

\* the run fails with error e: control is in main's catch
Raise(e) == error' = e /\ pc' = "catch"

\* await cacheOldCoordinates(): getPreviousSchedule rejects for a file that
\* cannot be read, and gives {} for one that is not JSON
CacheOldCoordinates ==
  /\ pc = "cacheOld"
  /\ IF scheduleFile.state = "missing"
     THEN Raise("readSchedule") /\ UNCHANGED coordinatesCache
     ELSE /\ coordinatesCache' =
               SeedCache(coordinatesCache, ParsedFile(scheduleFile, <<>>))
          /\ pc' = "fetch"
          /\ UNCHANGED error
  /\ UNCHANGED <<flags, clock, runs, dateFile, scheduleFile, browser, pages,
                 launches, closeCalls, index, fetched, results, geocodeLog,
                 byLocation, previous, newTimes, seen, output, exitCode,
                 schedule, loaded, updated, content>>

\* getBrowser(): puppeteer.launch is called when there is no browser
Launched == IF browser = "null" THEN launches + 1 ELSE launches

\* fetchPageContent(centre): getBrowser(), then a page is opened
OpenPage ==
  /\ pc = "fetch"
  /\ fetched' = fetched \cup {index + 1}
  /\ browser' = "open"
  /\ launches' = Launched
  /\ pages' = pages + 1
  /\ pc' = "goto"
  /\ UNCHANGED <<flags, clock, runs, dateFile, scheduleFile, closeCalls,
                 index, results, coordinatesCache, geocodeLog, byLocation,
                 previous, newTimes, seen, output, error, exitCode, schedule,
                 loaded, updated, content>>

\* puppeteer.launch rejects: no browser, fetchPageContent raises
LaunchFails ==
  /\ pc = "fetch"
  /\ browser = "null"
  /\ fetched' = fetched \cup {index + 1}
  /\ Raise("launch")
  /\ UNCHANGED <<flags, clock, runs, dateFile, scheduleFile, browser, pages,
                 launches, closeCalls, index, results, coordinatesCache,
                 geocodeLog, byLocation, previous, newTimes, seen, output,
                 exitCode, schedule, loaded, updated, content>>

\* browserInstance.newPage() rejects: fetchPageContent raises with the
\* browser there and no page opened
NewPageFails ==
  /\ pc = "fetch"
  /\ fetched' = fetched \cup {index + 1}
  /\ browser' = "open"
  /\ launches' = Launched
  /\ Raise("newPage")
  /\ UNCHANGED <<flags, clock, runs, dateFile, scheduleFile, pages,
                 closeCalls, index, results, coordinatesCache, geocodeLog,
                 byLocation, previous, newTimes, seen, output, exitCode,
                 schedule, loaded, updated, content>>

\* page.goto and page.content succeed with one of documents
Navigate(documents) ==
  /\ pc = "goto"
  /\ \E i \in 1..Len(documents) :
       content' = [state |-> "ok", document |-> documents[i]]
  /\ pc' = "closePage"
  /\ UNCHANGED <<flags, clock, runs, dateFile, scheduleFile, browser, pages,
                 launches, closeCalls, index, fetched, results,
                 coordinatesCache, geocodeLog, byLocation, previous,
                 newTimes, seen, output, error, exitCode, schedule, loaded,
                 updated>>

NavigateOk == Navigate(CentreDocuments(index + 1))

NavigateSeason == Navigate(SeasonDocuments(index + 1))

\* setViewport, setUserAgent, page.goto or page.content rejects
NavigateFails ==
  /\ pc = "goto"
  /\ content' = [content EXCEPT !.state = "failed"]
  /\ pc' = "closePage"
  /\ UNCHANGED <<flags, clock, runs, dateFile, scheduleFile, browser, pages,
                 launches, closeCalls, index, fetched, results,
                 coordinatesCache, geocodeLog, byLocation, previous,
                 newTimes, seen, output, error, exitCode, schedule, loaded,
                 updated>>

\* where main goes once the loop over the centres has ended
AfterFetch(found) ==
  IF flags.coordinates /\ Len(found) > 0 THEN "coords" ELSE "aggregate"

\* the finally of fetchPageContent closes the page; on success the loop
\* body goes on: the document's activities are extracted and pushed
ClosePage ==
  /\ pc = "closePage"
  /\ pages' = pages - 1
  /\ content' = NoContent
  /\ IF content.state = "failed"
     THEN Raise("fetch") /\ UNCHANGED <<index, results>>
     ELSE /\ results' = results \o PageActivities(content.document, flags.e)
          /\ index' = IF index + 1 < NumCentres THEN index + 1 ELSE 0
          /\ pc' = IF index + 1 < NumCentres THEN "fetch"
                   ELSE AfterFetch(results')
          /\ UNCHANGED error
  /\ UNCHANGED <<flags, clock, runs, dateFile, scheduleFile, browser,
                 launches, closeCalls, fetched, coordinatesCache, geocodeLog,
                 byLocation, previous, newTimes, seen, output, exitCode,
                 schedule, loaded, updated>>

\* the next position of the loop over results
CoordsNext == IF index + 1 < Len(results) THEN "coords" ELSE "aggregate"

\* the address fetchCoordinates looks up for the activity under way
ActivityAddress == addressWithoutPostalCode(results[index + 1].address)

\* coordinatesCache[address] = coordinates
Cached(address, coordinates) ==
  [a \in DOMAIN coordinatesCache \cup {address} |->
     IF a = address THEN coordinates ELSE coordinatesCache[a]]

\* fetchCoordinates answered from the cache
UseCachedCoordinates ==
  /\ pc = "coords"
  /\ ActivityAddress \in DOMAIN coordinatesCache
  /\ results' = [results EXCEPT ![index + 1].coordinates =
                                   coordinatesCache[ActivityAddress]]
  /\ index' = IF CoordsNext = "coords" THEN index + 1 ELSE 0
  /\ pc' = CoordsNext
  /\ UNCHANGED <<flags, clock, runs, dateFile, scheduleFile, browser, pages,
                 launches, closeCalls, fetched, coordinatesCache, geocodeLog,
                 byLocation, previous, newTimes, seen, output, error,
                 exitCode, schedule, loaded, updated, content>>

\* fetchCoordinates asks the geocoding service, which answers
GeocodeOk ==
  /\ pc = "coords"
  /\ ActivityAddress \notin DOMAIN coordinatesCache
  /\ geocodeLog' = Append(geocodeLog, ActivityAddress)
  /\ coordinatesCache' = Cached(ActivityAddress, GeoAnswer)
  /\ results' = [results EXCEPT ![index + 1].coordinates = GeoAnswer]
  /\ index' = IF CoordsNext = "coords" THEN index + 1 ELSE 0
  /\ pc' = CoordsNext
  /\ UNCHANGED <<flags, clock, runs, dateFile, scheduleFile, browser, pages,
                 launches, closeCalls, fetched, byLocation, previous,
                 newTimes, seen, output, error, exitCode, schedule, loaded,
                 updated, content>>

\* the geocoding request fails, or answers with no match (addressDetails[0]
\* is undefined): fetchCoordinates raises
GeocodeFails ==
  /\ pc = "coords"
  /\ ActivityAddress \notin DOMAIN coordinatesCache
  /\ geocodeLog' = Append(geocodeLog, ActivityAddress)
  /\ Raise("geocode")
  /\ UNCHANGED <<flags, clock, runs, dateFile, scheduleFile, browser, pages,
                 launches, closeCalls, index, fetched, results,
                 coordinatesCache, byLocation, previous, newTimes, seen,
                 output, exitCode, schedule, loaded, updated, content>>

\* the reduce into resultsByLocation; a sort that raises ends the run
AggregateResults ==
  /\ pc = "aggregate"
  /\ LET r == Aggregate(<<>>, results)
     IN IF r.raised
        THEN Raise("sort") /\ UNCHANGED byLocation
        ELSE byLocation' = r.value /\ pc' = "novelty" /\ UNCHANGED error
  /\ UNCHANGED <<flags, clock, runs, dateFile, scheduleFile, browser, pages,
                 launches, closeCalls, index, fetched, results,
                 coordinatesCache, geocodeLog, previous, newTimes, seen,
                 output, exitCode, schedule, loaded, updated, content>>

\* the calls of Date.now() from buildDateTable to the end of the annotation
\* loop: one per range, then one per key
ClockCalls(current) == Len(KeyOccurrences(current)) + Len(KeyOrder(current))

\* seen, with the keys of table that it did not hold yet
Remember(table) ==
  [k \in DOMAIN seen \cup DOMAIN table |->
     IF k \in DOMAIN seen THEN seen[k] ELSE table[k]]

\* await getPreviousTimes(), which rejects for a file that cannot be read;
\* then, with no await in between: buildDateTable, the annotation loop, the
\* write of the new table over the file, the schedule printed
NoveltyPass ==
  /\ pc = "novelty"
  /\ IF dateFile.state = "missing"
     THEN /\ Raise("readTimes")
          /\ UNCHANGED <<clock, dateFile, byLocation, previous, newTimes,
                         seen, output>>
     ELSE \E tickAt \in 0..ClockCalls(byLocation) :
            LET table == buildDateTable(ParsedFile(dateFile, EmptyTable),
                                        byLocation, clock, tickAt)
                marked == Annotate(byLocation, table, clock, tickAt)
            IN /\ previous' = ParsedFile(dateFile, EmptyTable)
               /\ newTimes' = table
               /\ byLocation' = marked
               /\ dateFile' = FileOf(table)
               /\ output' = [done |-> TRUE, value |-> marked]
               /\ seen' = Remember(table)
               /\ clock' = IF tickAt < ClockCalls(byLocation) THEN clock + 1
                           ELSE clock
               /\ pc' = "close"
               /\ UNCHANGED error
  /\ UNCHANGED <<flags, runs, scheduleFile, browser, pages, launches,
                 closeCalls, index, fetched, results, coordinatesCache,
                 geocodeLog, exitCode, schedule, loaded, updated, content>>

\* a closeBrowser that leaves the browser as it is
closeBrowserForgetting ==
  /\ browser' = browser
  /\ closeCalls' = closeCalls + 1

\* closeBrowser(): the browser, if there is one, is closed and the variable
\* reset; browser.close() itself is taken to resolve
closeBrowser ==
  /\ browser' = "null"
  /\ closeCalls' = closeCalls + 1

\* the end of main's try block: await closeBrowser(), and the process ends
CloseAtEnd ==
  /\ pc = "close"
  /\ closeBrowser
  /\ exitCode' = "0"
  /\ pc' = "done"
  /\ UNCHANGED <<flags, clock, runs, dateFile, scheduleFile, pages, launches,
                 index, fetched, results, coordinatesCache, geocodeLog,
                 byLocation, previous, newTimes, seen, output, error,
                 schedule, loaded, updated, content>>

\* main's catch block: await closeBrowser(), then process.exit(1)
CatchError ==
  /\ pc = "catch"
  /\ closeBrowser
  /\ exitCode' = "1"
  /\ pc' = "exited"
  /\ UNCHANGED <<flags, clock, runs, dateFile, scheduleFile, pages, launches,
                 index, fetched, results, coordinatesCache, geocodeLog,
                 byLocation, previous, newTimes, seen, output, error,
                 schedule, loaded, updated, content>>

(***************************************************************************)
(* main() in coordinates-only mode: populateCoordinatesOnly, run without   *)
(* --outfile, which writes ./cache/schedule.json.                          *)
(***************************************************************************)
StartCoordinatesOnly ==
  /\ pc = "idle"
  /\ Fresh([e |-> FALSE, coordinates |-> FALSE, coordinatesOnly |-> TRUE])
  /\ runs' = runs + 1
  /\ pc' = "load"
  /\ UNCHANGED <<clock, dateFile, scheduleFile, seen>>

\* await cacheOldCoordinates(), then await getPreviousSchedule(): a file
\* that cannot be read ends the process in populateCoordinatesOnly's catch
LoadSchedule ==
  /\ pc = "load"
  /\ IF scheduleFile.state = "missing"
     THEN /\ error' = "readSchedule"
          /\ exitCode' = "1"
          /\ pc' = "exited"
          /\ UNCHANGED <<coordinatesCache, schedule, loaded>>
     ELSE /\ coordinatesCache' =
               SeedCache(coordinatesCache, ParsedFile(scheduleFile, <<>>))
          /\ schedule' = ParsedFile(scheduleFile, <<>>)
          /\ loaded' = ParsedFile(scheduleFile, <<>>)
          /\ pc' = IF Len(ParsedFile(scheduleFile, <<>>)) > 0
                   THEN "populate" ELSE "write"
          /\ UNCHANGED <<error, exitCode>>
  /\ UNCHANGED <<flags, clock, runs, dateFile, scheduleFile, browser, pages,
                 launches, closeCalls, index, fetched, results, geocodeLog,
                 byLocation, previous, newTimes, seen, output, updated,
                 content>>

\* the loop over the locations goes to the next one
NextLocation ==
  /\ index' = IF index + 1 < Len(schedule) THEN index + 1 ELSE 0
  /\ pc' = IF index + 1 < Len(schedule) THEN "populate" ELSE "write"

\* the address fetchCoordinates looks up for the location under way
LocationAddress == addressWithoutPostalCode(schedule[index + 1].address)

\* the location under way has coordinates: nothing is done
KeepCoordinates ==
  /\ pc = "populate"
  /\ ~NeedsCoordinates(schedule[index + 1].coordinates)
  /\ NextLocation
  /\ UNCHANGED <<flags, clock, runs, dateFile, scheduleFile, browser, pages,
                 launches, closeCalls, fetched, results, coordinatesCache,
                 geocodeLog, byLocation, previous, newTimes, seen, output,
                 error, exitCode, schedule, loaded, updated, content>>

\* it needs coordinates and fetchCoordinates answers from the cache
PopulateFromCache ==
  /\ pc = "populate"
  /\ NeedsCoordinates(schedule[index + 1].coordinates)
  /\ LocationAddress \in DOMAIN coordinatesCache
  /\ schedule' = [schedule EXCEPT ![index + 1].coordinates =
                                     coordinatesCache[LocationAddress]]
  /\ updated' = TRUE
  /\ NextLocation
  /\ UNCHANGED <<flags, clock, runs, dateFile, scheduleFile, browser, pages,
                 launches, closeCalls, fetched, results, coordinatesCache,
                 geocodeLog, byLocation, previous, newTimes, seen, output,
                 error, exitCode, loaded, content>>

\* it needs coordinates and the geocoding service answers
PopulateGeocoded ==
  /\ pc = "populate"
  /\ NeedsCoordinates(schedule[index + 1].coordinates)
  /\ LocationAddress \notin DOMAIN coordinatesCache
  /\ geocodeLog' = Append(geocodeLog, LocationAddress)
  /\ coordinatesCache' = Cached(LocationAddress, GeoAnswer)
  /\ schedule' = [schedule EXCEPT ![index + 1].coordinates = GeoAnswer]
  /\ updated' = TRUE
  /\ NextLocation
  /\ UNCHANGED <<flags, clock, runs, dateFile, scheduleFile, browser, pages,
                 launches, closeCalls, fetched, results, byLocation,
                 previous, newTimes, seen, output, error, exitCode, loaded,
                 content>>

\* it needs coordinates and fetchCoordinates raises: the error is logged
\* and the loop goes on
PopulateFails ==
  /\ pc = "populate"
  /\ NeedsCoordinates(schedule[index + 1].coordinates)
  /\ LocationAddress \notin DOMAIN coordinatesCache
  /\ geocodeLog' = Append(geocodeLog, LocationAddress)
  /\ error' = "geocode"
  /\ NextLocation
  /\ UNCHANGED <<flags, clock, runs, dateFile, scheduleFile, browser, pages,
                 launches, closeCalls, fetched, results, coordinatesCache,
                 byLocation, previous, newTimes, seen, output, exitCode,
                 schedule, loaded, updated, content>>

\* if (updated) the schedule is written over ./cache/schedule.json; main
\* returns and the process ends
WriteSchedule ==
  /\ pc = "write"
  /\ scheduleFile' = IF updated THEN FileOf(schedule) ELSE scheduleFile
  /\ exitCode' = "0"
  /\ pc' = "done"
  /\ UNCHANGED <<flags, clock, runs, dateFile, browser, pages, launches,
                 closeCalls, index, fetched, results, coordinatesCache,
                 geocodeLog, byLocation, previous, newTimes, seen, output,
                 error, schedule, loaded, updated, content>>

(***************************************************************************)
(* Specifications.                                                         *)
(***************************************************************************)
\* one scraping run, with every failure the environment can cause
Next ==
  \/ Start
  \/ CacheOldCoordinates
  \/ OpenPage
  \/ LaunchFails
  \/ NewPageFails
  \/ NavigateOk
  \/ NavigateFails
  \/ ClosePage
  \/ UseCachedCoordinates
  \/ GeocodeOk
  \/ GeocodeFails
  \/ AggregateResults
  \/ NoveltyPass
  \/ CloseAtEnd
  \/ CatchError

Spec == Init /\ [][Next]_vars

\* scraping runs that follow each other, the environment not failing
NextNovelty ==
  \/ StartPlain
  \/ StartAgain
  \/ CacheOldCoordinates
  \/ OpenPage
  \/ NavigateSeason
  \/ ClosePage
  \/ AggregateResults
  \/ NoveltyPass
  \/ CloseAtEnd

SpecNovelty == InitNovelty /\ [][NextNovelty]_vars

\* one coordinates-only run
NextCoordinates ==
  \/ StartCoordinatesOnly
  \/ LoadSchedule
  \/ KeepCoordinates
  \/ PopulateFromCache
  \/ PopulateGeocoded
  \/ PopulateFails
  \/ WriteSchedule

SpecCoordinates == InitCoordinates /\ [][NextCoordinates]_vars

(***************************************************************************)
(* Properties.                                                             *)
(***************************************************************************)
\* the process has ended
Ended == pc \in {"done", "exited"}

\* the keys derivable from the aggregated schedule
CurrentKeys ==
  {KeyOccurrences(byLocation)[i] : i \in 1..Len(KeyOccurrences(byLocation))}

\* C1: a key that the table a run read and the run's schedule both have
\* keeps, in the table the run writes, the timestamp it had in the table
\* read, whatever that timestamp is.
StampsAreKept ==
  \A k \in DOMAIN previous \cap DOMAIN newTimes : newTimes[k] = previous[k]

\* C2: once a run has printed its schedule, the table it built and wrote
\* holds exactly the keys derivable from the schedule, and every key that
\* the table read did not hold (a key never seen, or one that had
\* disappeared) is stamped with a Date.now() of this run.
TableHoldsCurrentKeys ==
  output.done =>
    /\ DOMAIN newTimes = CurrentKeys
    /\ dateFile = FileOf(newTimes)
    /\ \A k \in DOMAIN newTimes \ DOMAIN previous :
         newTimes[k] \in {clock - 1, clock}

\* a key stamped in an earlier run, dropped since, is in the schedule again
KeyReappeared ==
  /\ output.done
  /\ \E k \in DOMAIN newTimes \ DOMAIN previous : seen[k] < newTimes[k]

\* C3: when the run has ended and the fetch of a document had failed, every
\* centre has been fetched all the same and the schedule has been printed.
FailsSoftPerDocument ==
  (Ended /\ error = "fetch") => (fetched = 1..NumCentres /\ output.done)

\* C4: a process that launched the browser has called closeBrowser when it
\* ends, no process ends with the browser open, and a page is open only
\* while fetchPageContent is under way.
BrowserIsReleased ==
  /\ (Ended /\ launches > 0) => closeCalls > 0
  /\ Ended => browser = "null"
  /\ pc \notin {"goto", "closePage"} => pages = 0

\* a run that failed after the browser was launched has ended
FailedRunEnded ==
  /\ pc = "exited"
  /\ error \in {"fetch", "geocode", "sort", "readTimes"}
  /\ launches > 0
  /\ closeCalls > 0

\* C5: no run fails because a cache file is missing or corrupt.
LoadingIsTolerant == error \notin {"readSchedule", "readTimes"}

\* the start of a range in minutes of the day: the text before the dash,
\* read with its own am or pm when it has one, with the end's otherwise
StartTime(range) ==
  LET time == TimeWithoutActivity(range)
      start == Trim(Substring(time, 0, FirstDash(time, 0)))
  IN IF Includes(start, "am") \/ Includes(start, "pm")
     THEN Moment(start).val
     ELSE IF Includes(time, "pm") THEN Moment(start \o " pm").val
     ELSE Moment(start \o " am").val

\* C6: every day's list of every aggregated location is in the order of
\* the ranges' start times.
OrderedByStart ==
  \A i \in 1..Len(byLocation) : \A d \in DOMAIN byLocation[i].days :
    \A a, b \in 1..Len(byLocation[i].days[d]) :
      a < b => StartTime(byLocation[i].days[d][a])
                 <= StartTime(byLocation[i].days[d][b])

EndsWith(s, p) ==
  Len(s) >= Len(p) /\ SubSeq(s, Len(s) - Len(p) + 1, Len(s)) = p

\* C7: no range of the printed schedule carries more than one marker.
AtMostOneMarker ==
  output.done =>
    \A i \in 1..Len(output.value) : \A d \in DOMAIN output.value[i].days :
      \A j \in 1..Len(output.value[i].days[d]) :
        ~EndsWith(output.value[i].days[d][j], "**")

\* C8: whatever the cells of the rows hold, the run does not end because
\* the aggregator's sort raised.
NoCellAborts == error # "sort"

\* the locations of the schedule read that lack valid coordinates
Lacking == {i \in 1..Len(loaded) : NeedsCoordinates(loaded[i].coordinates)}

\* C9: a coordinates-only run over a schedule in which one location lacks
\* valid coordinates, the geocoding service answering, asks the service
\* once, for that location's address without its postal code, gives the
\* location the answer, leaves the other locations as they were and fetches
\* no document.
GeocodesTheOneLacking ==
  (pc = "done" /\ flags.coordinatesOnly /\ error = "none"
     /\ Cardinality(Lacking) = 1) =>
    \A i \in Lacking :
      /\ geocodeLog = <<addressWithoutPostalCode(loaded[i].address)>>
      /\ schedule[i].coordinates = GeoAnswer
      /\ \A j \in (1..Len(loaded)) \ {i} : schedule[j] = loaded[j]
      /\ fetched = {}

\* whether a token starts at an hour from 5 to 9 in the evening: the am or
\* pm is the start's own when it has one, the end's otherwise
EveningStart(token) ==
  LET start == IF HasDash(token) THEN Substring(token, 0, FirstDash(token, 0))
               ELSE token
      pm == IF Includes(start, "am") \/ Includes(start, "pm")
            THEN Includes(start, "pm")
            ELSE Includes(token, "pm")
  IN pm /\ ~ParseInt(token).nan /\ ParseInt(token).val \in 5..9

\* C10: with the evenings-and-weekends filter, every token kept is on
\* Saturday or Sunday or starts at an hour from 5 to 9 in the evening.
FilterKeepsEveningsAndWeekends ==
  flags.e =>
    \A i \in 1..Len(results) : \A d \in DOMAIN results[i].schedules :
      \A j \in 1..Len(results[i].schedules[d]) :
        d \in {"Saturday", "Sunday"} \/ EveningStart(results[i].schedules[d][j])

=============================================================================
